---- MODULE Spec2Model ----
(***************************************************************************)
(* Model of rp.py (ajgwords/resource-planner): validate_priorities,        *)
(* calculate_working_days and assign_project_dates.                        *)
(*                                                                         *)
(* A calendar date is modelled by its day number: day 0 is 2024-01-03, a   *)
(* Wednesday, and day d is d days later.  datetime.weekday() numbers       *)
(* Monday 0 .. Sunday 6.                                                   *)
(***************************************************************************)
EXTENDS Integers, Sequences, FiniteSets, TLC

VARIABLES
    data,                 \* the loaded configuration: projects, holidays, settings
    pc,                   \* position in assign_project_dates
    error,                \* the exception that ended the run, "none" otherwise
    projects,             \* local `projects` after the sort by priority
    ledger_created,       \* whether `assigned_dates = {}` has been executed
    assigned_dates,       \* local `assigned_dates`: date -> project name
    unassigned_projects,  \* local `unassigned_projects`
    idx,                  \* index of the next project of the for loop
    working_days,         \* local `working_days` of the last iteration
    assigned_count,       \* local `assigned_count` of the last iteration
    calc_in,              \* arguments of a direct call of calculate_working_days
    calc_out              \* what that call returned

vars == <<data, pc, error, projects, ledger_created, assigned_dates,
          unassigned_projects, idx, working_days, assigned_count,
          calc_in, calc_out>>

(***************************************************************************)
(* Bounds of the model.                                                    *)
(***************************************************************************)
MaxDate == 3            \* runs: dates 0..MaxDate (Wed Thu Fri Sat)
MaxRequired == 2        \* runs: required_days in 0..MaxRequired
MaxValidated == 3       \* validation: up to this many projects
MaxCalcDate == 7        \* calculator: dates 0..MaxCalcDate
MaxCalcRequired == 3    \* calculator: required_days in 0..MaxCalcRequired
MaxCalcHolidays == 1    \* calculator: at most this many holidays
MaxWdpw == 7            \* calculator: working_days_per_week in -MaxWdpw..MaxWdpw

NamePool == <<"A", "B", "C", "D", "E", "F">>
RunSizes == 0 .. 2      \* runs: number of projects
RunWdpw == {0, 3, 4, 5} \* runs: working_days_per_week (none, Mon-Wed, Mon-Thu, Mon-Fri)

Dates == 0 .. MaxDate
CalcDates == 0 .. MaxCalcDate

(***************************************************************************)
(* Helpers                                                                 *)
(***************************************************************************)
Range(s) == {s[i] : i \in DOMAIN s}

Min(a, b) == IF a <= b THEN a ELSE b

Max(a, b) == IF a >= b THEN a ELSE b

\* datetime.weekday() of day d (Monday = 0)
Weekday(d) == (d + 2) % 7

\* dict.get(key, default)
Get(dict, key, default) == IF key \in DOMAIN dict THEN dict[key] ELSE default

(***************************************************************************)
(* validate_priorities                                                     *)
(***************************************************************************)
RECURSIVE InsertSorted(_, _)
InsertSorted(x, s) ==
    IF s = <<>> THEN <<x>>
    ELSE IF x < Head(s) THEN <<x>> \o s
    ELSE <<Head(s)>> \o InsertSorted(x, Tail(s))

\* sorted(list of integers)
RECURSIVE SortedInts(_)
SortedInts(s) ==
    IF s = <<>> THEN <<>>
    ELSE InsertSorted(s[Len(s)], SortedInts(SubSeq(s, 1, Len(s) - 1)))

\* [project.get("priority", 0) for project in projects]
PriorityList(ps) == [i \in 1 .. Len(ps) |-> Get(ps[i], "priority", 0)]

\* list(range(1, len(projects) + 1))
ExpectedPriorities(ps) == [i \in 1 .. Len(ps) |-> i]

validate_priorities_unsorted(ps) == PriorityList(ps) = ExpectedPriorities(ps)

\* TRUE when the function returns True, FALSE when it raises ValueError
validate_priorities(ps) == SortedInts(PriorityList(ps)) = ExpectedPriorities(ps)

(***************************************************************************)
(* calculate_working_days                                                  *)
(***************************************************************************)
\* list(range(5))[:k], with Python's slice semantics for any integer k
allowed_weekdays(k) ==
    SubSeq(<<0, 1, 2, 3, 4>>, 1, IF k >= 0 THEN Min(k, 5) ELSE Max(5 + k, 0))

RECURSIVE CollectDaysNoHolidays(_, _, _, _)
CollectDaysNoHolidays(current, end, allowed, holidays2) ==
    IF current > end THEN <<>>
    ELSE (IF Weekday(current) \in Range(allowed) THEN <<current>> ELSE <<>>)
         \o CollectDaysNoHolidays(current + 1, end, allowed, holidays2)

RECURSIVE CollectDaysExclusiveEnd(_, _, _, _)
CollectDaysExclusiveEnd(current, end, allowed, holidays2) ==
    IF current >= end THEN <<>>
    ELSE (IF Weekday(current) \in Range(allowed) /\ current \notin holidays2
          THEN <<current>> ELSE <<>>)
         \o CollectDaysExclusiveEnd(current + 1, end, allowed, holidays2)

\* the while loop: every date from current to end, kept if its weekday is
\* allowed and it is no holiday
RECURSIVE CollectDays(_, _, _, _)
CollectDays(current, end, allowed, holidays2) ==
    IF current > end THEN <<>>
    ELSE (IF Weekday(current) \in Range(allowed) /\ current \notin holidays2
          THEN <<current>> ELSE <<>>)
         \o CollectDays(current + 1, end, allowed, holidays2)

\* round(num / den) for num >= 0, den > 0: Python 3 rounds half to even.
\* (i * (n / r) in double precision rounds to the same integer as the exact
\* quotient for every n < 25, which covers the lists of this model.)
RoundHalfEven(num, den) ==
    LET q == num \div den
        r2 == 2 * (num % den)
    IN  IF r2 < den THEN q
        ELSE IF r2 > den THEN q + 1
        ELSE IF q % 2 = 0 THEN q ELSE q + 1

SpreadIndexShifted(i, n, r) == RoundHalfEven((i + 1) * n, r)

\* int(round(i * interval)) with interval = n / r
SpreadIndex(i, n, r) == RoundHalfEven(i * n, r)

calculate_working_days(start, end, required_days, holidays, settings) ==
    LET working_days_per_week == Get(settings, "working_days_per_week", 5)
        spread_days_evenly == Get(settings, "spread_days_evenly", FALSE)
        all_days == CollectDays(start, end,
                                allowed_weekdays(working_days_per_week), holidays)
        n == Len(all_days)
    IN  IF spread_days_evenly /\ n > required_days
        THEN IF required_days = 0
             THEN [status |-> "ZeroDivisionError"]
             ELSE IF \E i \in 0 .. required_days - 1 :
                        SpreadIndex(i, n, required_days) >= n
             THEN [status |-> "IndexError"]
             ELSE LET picked == [j \in 1 .. required_days |->
                                   all_days[SpreadIndex(j - 1, n, required_days) + 1]]
                  IN  [status |-> "ok",
                       available_days |-> Len(picked),
                       is_sufficient |-> Len(picked) >= required_days,
                       working_days |-> picked]
        ELSE [status |-> "ok",
              available_days |-> n,
              is_sufficient |-> n >= required_days,
              working_days |-> all_days]

(***************************************************************************)
(* assign_project_dates                                                    *)
(***************************************************************************)
\* the insertion step of the stable sort by p['priority']
RECURSIVE InsertByPriority(_, _)
InsertByPriority(p, s) ==
    IF s = <<>> THEN <<p>>
    ELSE IF p.priority < Head(s).priority THEN <<p>> \o s
    ELSE <<Head(s)>> \o InsertByPriority(p, Tail(s))

SortByPriorityFileOrder(ps) == ps

\* sorted(projects, key=lambda p: p['priority'])
RECURSIVE SortByPriority(_)
SortByPriority(ps) ==
    IF ps = <<>> THEN <<>>
    ELSE InsertByPriority(ps[Len(ps)], SortByPriority(SubSeq(ps, 1, Len(ps) - 1)))

\* assigned_dates[day] = name
Put(ledger, day, name) ==
    [d \in DOMAIN ledger \cup {day} |-> IF d = day THEN name ELSE ledger[d]]

IsFreeAlways(ledger, day) == TRUE

\* day not in assigned_dates
IsFree(ledger, day) == day \notin DOMAIN ledger

RECURSIVE ClaimDaysOneMore(_, _, _, _, _, _)
ClaimDaysOneMore(days, k, ledger, count, required_days, name) ==
    IF k > Len(days) \/ count > required_days
    THEN [ledger |-> ledger, count |-> count]
    ELSE IF IsFree(ledger, days[k])
         THEN ClaimDaysOneMore(days, k + 1, Put(ledger, days[k], name), count + 1,
                               required_days, name)
         ELSE ClaimDaysOneMore(days, k + 1, ledger, count, required_days, name)

\* the inner for loop over working_days, from position k
RECURSIVE ClaimDays(_, _, _, _, _, _)
ClaimDays(days, k, ledger, count, required_days, name) ==
    IF k > Len(days) \/ count >= required_days
    THEN [ledger |-> ledger, count |-> count]
    ELSE IF IsFree(ledger, days[k])
         THEN ClaimDays(days, k + 1, Put(ledger, days[k], name), count + 1,
                        required_days, name)
         ELSE ClaimDays(days, k + 1, ledger, count, required_days, name)

IsShortOrExact(count, required_days) == count <= required_days

\* assigned_count < required_days
IsShort(count, required_days) == count < required_days

\* assigned_dates = {}
EmptyLedger == [d \in {} |-> "A"]

CalcPending == [status |-> "pending"]

\* lines 95-102: validate, sort, create the ledger and the shortfall list
Validate ==
    /\ pc = "start"
    /\ IF validate_priorities(data.projects)
       THEN /\ projects' = SortByPriority(data.projects)
            /\ ledger_created' = TRUE
            /\ pc' = "loop"
            /\ error' = error
       ELSE /\ pc' = "error"
            /\ error' = "ValueError"
            /\ UNCHANGED <<projects, ledger_created>>
    /\ UNCHANGED <<data, assigned_dates, unassigned_projects, idx,
                   working_days, assigned_count, calc_in, calc_out>>

\* lines 104-130: one iteration of the loop over projects
ProcessProject ==
    /\ pc = "loop"
    /\ idx <= Len(projects)
    /\ LET project == projects[idx]
           res == calculate_working_days(project.start_date, project.end_date,
                                         project.required_days, data.holidays,
                                         data.settings)
       IN  IF res.status # "ok"
           THEN /\ pc' = "error"
                /\ error' = res.status
                /\ UNCHANGED <<assigned_dates, unassigned_projects, idx,
                               working_days, assigned_count>>
           ELSE LET out == ClaimDays(res.working_days, 1, assigned_dates, 0,
                                     project.required_days, project.name)
                IN  /\ assigned_dates' = out.ledger
                    /\ assigned_count' = out.count
                    /\ working_days' = res.working_days
                    /\ unassigned_projects' =
                         IF IsShort(out.count, project.required_days)
                         THEN Append(unassigned_projects,
                                     [name |-> project.name,
                                      assigned_days |-> out.count,
                                      required_days |-> project.required_days])
                         ELSE unassigned_projects
                    /\ idx' = idx + 1
                    /\ UNCHANGED <<pc, error>>
    /\ UNCHANGED <<data, projects, ledger_created, calc_in, calc_out>>

\* line 132: return assigned_dates, unassigned_projects
Return ==
    /\ pc = "loop"
    /\ idx > Len(projects)
    /\ pc' = "done"
    /\ UNCHANGED <<data, error, projects, ledger_created, assigned_dates,
                   unassigned_projects, idx, working_days, assigned_count,
                   calc_in, calc_out>>

\* a direct call of calculate_working_days
CalcCall ==
    /\ pc = "calc"
    /\ calc_out' = calculate_working_days(calc_in.start_date, calc_in.end_date,
                                          calc_in.required_days, calc_in.holidays,
                                          calc_in.settings)
    /\ pc' = "calc_done"
    /\ UNCHANGED <<data, error, projects, ledger_created, assigned_dates,
                   unassigned_projects, idx, working_days, assigned_count, calc_in>>

(***************************************************************************)
(* Inputs                                                                  *)
(***************************************************************************)
Perms(n) == {f \in [1 .. n -> 1 .. n] : \A i, j \in 1 .. n : i # j => f[i] # f[j]}

ProjectContents ==
    {c \in [start_date : Dates, end_date : Dates, required_days : 0 .. MaxRequired] :
        c.start_date <= c.end_date}

MkProject(i, prio, c) ==
    [name |-> NamePool[i], priority |-> prio, start_date |-> c.start_date,
     end_date |-> c.end_date, required_days |-> c.required_days]

MkProjectNoPriority(i, c) ==
    [name |-> NamePool[i], start_date |-> c.start_date,
     end_date |-> c.end_date, required_days |-> c.required_days]

\* project lists whose priorities are a permutation of 1..n, in any file order
RunProjectLists ==
    UNION {{[i \in 1 .. n |-> MkProject(i, perm[i], cs[i])] :
               perm \in Perms(n), cs \in [1 .. n -> ProjectContents]} :
           n \in RunSizes}

RunHolidays == {{}} \cup {{h} : h \in Dates}

RunSettings ==
    [working_days_per_week : RunWdpw, spread_days_evenly : BOOLEAN]

\* priority values of any kind: negative, zero, in range, too large
\* (ValidateProjectLists also leaves the key out of one project)
PriorityChoices(n) == (0 - 1) .. (n + 1)

ValidateContents == {[start_date |-> 0, end_date |-> MaxDate, required_days |-> 1]}

ValidateProjectLists ==
    UNION {{[i \in 1 .. n |->
                IF absent[i] THEN MkProjectNoPriority(i, cs[i])
                ELSE MkProject(i, prio[i], cs[i])] :
               prio \in [1 .. n -> PriorityChoices(n)],
               absent \in {a \in [1 .. n -> BOOLEAN] :
                              Cardinality({i \in 1 .. n : a[i]}) <= 1},
               cs \in [1 .. n -> ValidateContents]} :
           n \in 0 .. MaxValidated}

CalcHolidays == {h \in SUBSET CalcDates : Cardinality(h) <= MaxCalcHolidays}

WdpwValues == (0 - MaxWdpw) .. MaxWdpw

CalcSettings ==
    [working_days_per_week : WdpwValues, spread_days_evenly : BOOLEAN]
    \cup [working_days_per_week : WdpwValues]
    \cup [spread_days_evenly : BOOLEAN]

CalcInputs ==
    {c \in [start_date : CalcDates, end_date : CalcDates,
            required_days : 0 .. MaxCalcRequired,
            holidays : CalcHolidays, settings : CalcSettings] :
        c.start_date <= c.end_date}

NoData == [projects |-> <<>>, holidays |-> {}, settings |-> [spread_days_evenly |-> FALSE]]

NoCall == [start_date |-> 0, end_date |-> 0, required_days |-> 0,
           holidays |-> {}, settings |-> [spread_days_evenly |-> FALSE]]

RunLocalsInit ==
    /\ error = "none"
    /\ projects = <<>>
    /\ ledger_created = FALSE
    /\ assigned_dates = EmptyLedger
    /\ unassigned_projects = <<>>
    /\ idx = 1
    /\ working_days = <<>>
    /\ assigned_count = 0
    /\ calc_out = CalcPending

\* runs of assign_project_dates on configurations that pass validation
Init ==
    /\ data \in [projects : RunProjectLists, holidays : RunHolidays,
                 settings : RunSettings]
    /\ pc = "start"
    /\ calc_in = NoCall
    /\ RunLocalsInit

\* runs of assign_project_dates on configurations with arbitrary priorities
InitValidate ==
    /\ data \in [projects : ValidateProjectLists, holidays : {{}},
                 settings : [working_days_per_week : {5}, spread_days_evenly : {FALSE}]]
    /\ pc = "start"
    /\ calc_in = NoCall
    /\ RunLocalsInit

\* direct calls of calculate_working_days
InitCalc ==
    /\ data = NoData
    /\ pc = "calc"
    /\ calc_in \in CalcInputs
    /\ RunLocalsInit

Next == Validate \/ ProcessProject \/ Return

NextCalc == CalcCall

Spec == Init /\ [][Next]_vars

SpecValidate == InitValidate /\ [][Next]_vars

SpecCalc == InitCalc /\ [][NextCalc]_vars

(***************************************************************************)
(* Vocabulary of the properties                                            *)
(***************************************************************************)
\* the dates of the ledger mapped to a project name
ClaimedBy(name) == {d \in DOMAIN assigned_dates : assigned_dates[d] = name}

\* required_days minus claimed days
Shortfall(p) == p.required_days - Cardinality(ClaimedBy(p.name))

\* eligible days of a window: weekday among the first k of Mon..Fri, no holiday
EligibleDays(start, end, k, holidays) ==
    {d \in start .. end : Weekday(d) < k /\ Weekday(d) <= 4 /\ d \notin holidays}

StrictlyIncreasing(s) == \A i, j \in DOMAIN s : i < j => s[i] < s[j]

\* the m earliest dates of a set
Earliest(S, m) == {d \in S : Cardinality({e \in S : e < d}) < m}

RunWindowDays(p) ==
    EligibleDays(p.start_date, p.end_date,
                 data.settings.working_days_per_week, data.holidays)

\* the project whose turn has just ended
LastProcessed == projects[idx - 1]

(***************************************************************************)
(* C1: an entry of the ledger, once written, is never changed or removed   *)
(* by a later step of the loop: a date stays mapped to the project that    *)
(* claimed it first.                                                       *)
(***************************************************************************)
C1_LedgerWriteOnce ==
    [][\A d \in DOMAIN assigned_dates :
          /\ d \in DOMAIN assigned_dates'
          /\ assigned_dates'[d] = assigned_dates[d]]_vars

\* a later project ended short while an eligible date of its window was
\* held by an earlier project
C1_Witness ==
    /\ pc = "done"
    /\ \E i, j \in 1 .. Len(projects) :
          /\ i < j
          /\ Shortfall(projects[j]) > 0
          /\ ClaimedBy(projects[i].name) \cap RunWindowDays(projects[j]) # {}

(***************************************************************************)
(* C2: once validation has passed, the run never ends in an error.         *)
(***************************************************************************)
C2_NoErrorAfterValidation == pc = "error" => error = "ValueError"

(***************************************************************************)
(* C3: validate_priorities succeeds exactly when every value of 1..N       *)
(* occurs once among the N priorities (an absent priority counting as 0),  *)
(* and when it fails the ledger has not been created and no date is        *)
(* claimed.                                                                *)
(***************************************************************************)
PrioritiesAreOneToN(ps) ==
    \A v \in 1 .. Len(ps) :
        Cardinality({i \in 1 .. Len(ps) : Get(ps[i], "priority", 0) = v}) = 1

C3_ValidateIffOneToN ==
    /\ pc # "start" =>
          ((pc = "error" /\ error = "ValueError") <=> ~PrioritiesAreOneToN(data.projects))
    /\ (pc = "error" /\ error = "ValueError") =>
          /\ ~ledger_created
          /\ DOMAIN assigned_dates = {}
          /\ unassigned_projects = <<>>

\* a list rejected only because one project has no priority
C3_Witness ==
    /\ pc = "error"
    /\ error = "ValueError"
    /\ ~ledger_created
    /\ Len(data.projects) >= 2
    /\ \E i \in 1 .. Len(data.projects) :
          /\ "priority" \notin DOMAIN data.projects[i]
          /\ \A j \in 1 .. Len(data.projects) :
                j # i => data.projects[j].priority \in 1 .. Len(data.projects)
          /\ \A j, k \in 1 .. Len(data.projects) :
                (j # i /\ k # i /\ j # k) =>
                    data.projects[j].priority # data.projects[k].priority

(***************************************************************************)
(* C6: every date of the ledger lies in the window of the project it is    *)
(* mapped to, falls on an allowed weekday and is no holiday.               *)
(***************************************************************************)
C6_LedgerDatesEligible ==
    \A d \in DOMAIN assigned_dates :
        \E i \in 1 .. Len(data.projects) :
            /\ data.projects[i].name = assigned_dates[d]
            /\ d \in RunWindowDays(data.projects[i])

\* a project claimed dates from a window that also holds a holiday on a
\* working weekday and a weekend day, with even spreading on
C6_Witness ==
    /\ pc = "done"
    /\ data.settings.spread_days_evenly
    /\ \E i \in 1 .. Len(projects) :
          LET p == projects[i]
          IN  /\ ClaimedBy(p.name) # {}
              /\ \E h \in data.holidays :
                    /\ h \in p.start_date .. p.end_date
                    /\ Weekday(h) < data.settings.working_days_per_week
              /\ \E w \in p.start_date .. p.end_date : Weekday(w) >= 5

(***************************************************************************)
(* C8: at the end of its turn a project has claimed exactly                *)
(* min(required_days, u) dates, u being the number of dates of its day     *)
(* list that were free, and they are the earliest free dates of the list;  *)
(* without even spreading it ends short exactly when fewer than            *)
(* required_days eligible dates of its window were free.                   *)
(***************************************************************************)
C8_ClaimsEarliestFree ==
    (pc \in {"loop", "done"} /\ idx > 1) =>
        LET p == LastProcessed
            taken == DOMAIN assigned_dates \ ClaimedBy(p.name)
            free == Range(working_days) \ taken
            m == Min(p.required_days, Cardinality(free))
        IN  /\ assigned_count = m
            /\ ClaimedBy(p.name) = Earliest(free, m)
            /\ ~data.settings.spread_days_evenly =>
                  (assigned_count < p.required_days
                     <=> Cardinality(RunWindowDays(p) \ taken) < p.required_days)

\* the second project found a date of its list taken, skipped it and still
\* left a free date of its list unclaimed
C8_Witness ==
    /\ pc = "loop"
    /\ idx = 3
    /\ Range(working_days) \cap ClaimedBy(projects[1].name) # {}
    /\ assigned_count >= 1
    /\ Range(working_days) \ DOMAIN assigned_dates # {}

(***************************************************************************)
(* C9: after a completed run a project is in the shortfall list exactly    *)
(* when it holds fewer ledger dates than required_days, at most once, with *)
(* its counts recorded; no project holds more than required_days dates;    *)
(* the records are in ascending priority order.                            *)
(***************************************************************************)
PriorityOfName(name) ==
    (CHOOSE p \in Range(data.projects) : p.name = name).priority

C9_ShortfallList ==
    pc = "done" =>
        /\ \A p \in Range(data.projects) :
              LET recs == {k \in 1 .. Len(unassigned_projects) :
                              unassigned_projects[k].name = p.name}
                  held == Cardinality(ClaimedBy(p.name))
              IN  /\ held <= p.required_days
                  /\ Cardinality(recs) = (IF held < p.required_days THEN 1 ELSE 0)
                  /\ \A k \in recs :
                        /\ unassigned_projects[k].assigned_days = held
                        /\ unassigned_projects[k].required_days = p.required_days
        /\ \A k \in 1 .. Len(unassigned_projects) :
              \E p \in Range(data.projects) : p.name = unassigned_projects[k].name
        /\ \A j, k \in 1 .. Len(unassigned_projects) :
              j < k => PriorityOfName(unassigned_projects[j].name)
                         < PriorityOfName(unassigned_projects[k].name)

\* two shortfall records, one with a partial count, for projects given in
\* the file in the reverse of their priority order
C9_Witness ==
    /\ pc = "done"
    /\ Len(unassigned_projects) = 2
    /\ \E k \in 1 .. 2 : unassigned_projects[k].assigned_days > 0
    /\ Len(data.projects) = 2
    /\ data.projects[1].priority > data.projects[2].priority

(***************************************************************************)
(* C4: of two projects with overlapping windows whose combined required    *)
(* days exceed the eligible dates of their windows, the one of higher      *)
(* priority ends with a shortfall no larger than the other's.              *)
(***************************************************************************)
WindowsOverlap(p, q) ==
    Max(p.start_date, q.start_date) <= Min(p.end_date, q.end_date)

CombinedInsufficient(p, q) ==
    Cardinality(RunWindowDays(p) \cup RunWindowDays(q))
        < p.required_days + q.required_days

Contending(p, q) ==
    /\ p.priority < q.priority
    /\ WindowsOverlap(p, q)
    /\ CombinedInsufficient(p, q)

DayListOf(p) ==
    calculate_working_days(p.start_date, p.end_date, p.required_days,
                           data.holidays, data.settings).working_days

\* the dates held by projects of higher priority than p
HeldAbove(p) ==
    {d \in DOMAIN assigned_dates : PriorityOfName(assigned_dates[d]) < p.priority}

Clamp(k) == Min(Max(k, 0), 5)

CallSpread == Get(calc_in.settings, "spread_days_evenly", FALSE)

CallWdpw == Get(calc_in.settings, "working_days_per_week", 5)

C5_WdpwClamped ==
    (pc = "calc_done" /\ ~CallSpread) =>
        /\ calc_out.status = "ok"
        /\ Range(calc_out.working_days) =
              EligibleDays(calc_in.start_date, calc_in.end_date,
                           Clamp(CallWdpw), calc_in.holidays)

(***************************************************************************)
(* C7: without even spreading and with working_days_per_week in 0..5, the  *)
(* call returns the eligible dates of the window in strictly chronological *)
(* order, their number as available_days, and is_sufficient =              *)
(* (available_days >= required_days); with 0 working days the list is      *)
(* empty.                                                                  *)
(***************************************************************************)
C7_EligibleListNoSpread ==
    (pc = "calc_done" /\ ~CallSpread /\ CallWdpw \in 0 .. 5) =>
        LET elig == EligibleDays(calc_in.start_date, calc_in.end_date,
                                 CallWdpw, calc_in.holidays)
        IN  /\ calc_out.status = "ok"
            /\ calc_out.available_days = Cardinality(elig)
            /\ Len(calc_out.working_days) = calc_out.available_days
            /\ Range(calc_out.working_days) = elig
            /\ StrictlyIncreasing(calc_out.working_days)
            /\ calc_out.is_sufficient
                  <=> (calc_out.available_days >= calc_in.required_days)
            /\ CallWdpw = 0 => calc_out.working_days = <<>>

\* a window across a weekend with a holiday on a working weekday, three
\* working days a week, and fewer eligible dates than required
C7_Witness ==
    /\ pc = "calc_done"
    /\ ~CallSpread
    /\ CallWdpw = 3
    /\ \E h \in calc_in.holidays :
          /\ h \in calc_in.start_date .. calc_in.end_date
          /\ Weekday(h) < 3
    /\ \E w \in calc_in.start_date .. calc_in.end_date : Weekday(w) >= 5
    /\ calc_out.available_days >= 2
    /\ ~calc_out.is_sufficient

(***************************************************************************)
(* C10: with even spreading, n eligible dates and n > required_days = r    *)
(* >= 1, the call returns exactly r pairwise distinct eligible dates in    *)
(* chronological order, the i-th (from 0) at index round(i*n/r), half to   *)
(* even, of the eligible list, with available_days = r and is_sufficient;  *)
(* with n <= r the eligible list is returned unchanged.                    *)
(***************************************************************************)
CallEligible ==
    {d \in calc_in.start_date .. calc_in.end_date :
        /\ Weekday(d) \in Range(allowed_weekdays(CallWdpw))
        /\ d \notin calc_in.holidays}

\* position (from 0) of a date in the chronological list of eligible dates
EligibleIndex(d) == Cardinality({e \in CallEligible : e < d})

Abs(x) == IF x < 0 THEN 0 - x ELSE x

C10_EvenSpread ==
    (pc = "calc_done" /\ CallSpread) =>
        LET n == Cardinality(CallEligible)
            r == calc_in.required_days
        IN  /\ (n > r /\ r >= 1) =>
                  /\ calc_out.status = "ok"
                  /\ Len(calc_out.working_days) = r
                  /\ Range(calc_out.working_days) \subseteq CallEligible
                  /\ StrictlyIncreasing(calc_out.working_days)
                  /\ \A i \in 0 .. r - 1 :
                        LET ix == EligibleIndex(calc_out.working_days[i + 1])
                            off == 2 * Abs(ix * r - i * n)
                        IN  /\ ix \in 0 .. n - 1
                            /\ off <= r
                            /\ off = r => ix % 2 = 0
                  /\ calc_out.available_days = r
                  /\ calc_out.is_sufficient
            /\ n <= r =>
                  /\ calc_out.status = "ok"
                  /\ Len(calc_out.working_days) = n
                  /\ Range(calc_out.working_days) = CallEligible
                  /\ StrictlyIncreasing(calc_out.working_days)
                  /\ calc_out.available_days = n

\* a down-sample whose index i*n/r falls on a half and that skips at least
\* two eligible dates
C10_Witness ==
    /\ pc = "calc_done"
    /\ CallSpread
    /\ calc_out.status = "ok"
    /\ LET n == Cardinality(CallEligible)
           r == calc_in.required_days
       IN  /\ r >= 2
           /\ n >= r + 2
           /\ \E i \in 1 .. r - 1 : 2 * ((i * n) % r) = r

====
